---- MODULE Spec2Model ----
(***************************************************************************)
(* Model of src/app.py: a Streamlit client of a RAG HTTP service.          *)
(* One script run is one action.  A run is triggered by a widget edit      *)
(* (no button pressed), by the "Submit Parameters" button or by the        *)
(* "Execute Query" button.  The HTTP service is the environment: every     *)
(* call gets a response chosen from a small set.                           *)
(***************************************************************************)
EXTENDS Integers, Sequences, FiniteSets, TLC

(* ---------------- bounds of the model ---------------- *)
MaxHistoryLimit == 2
MaxRerankK == 5
MaxDocs == 2
MaxEntries == 3
MaxKeywordsLen == 4

(* ---------------- program constants ---------------- *)
HEALTH_TIMEOUT == 30
SET_PARAMETERS_TIMEOUT == 240
ADD_KEYWORDS_TIMEOUT == 30
QUERY_TIMEOUT == 240
HISTORY_TIMEOUT == 30
DEFAULT_K == 5
DEFAULT_CHUNK_OVERLAP == 10
DEFAULT_RERANK_K == 5
DEFAULT_HISTORY_LIMIT == 1

(* ---------------- Python values ---------------- *)
\* A Python value as far as its truth value is concerned: its type and its
\* number (the int itself, 0/1 for a bool, the length of a list/dict/str).
PyNone == [t |-> "NoneType", n |-> 0]
PyInt(i) == [t |-> "int", n |-> i]
PyBool(b) == [t |-> "bool", n |-> IF b THEN 1 ELSE 0]
PyList(s) == [t |-> "list", n |-> Len(s)]
PyStr(s) == [t |-> "str", n |-> Len(s)]
PyDict(n) == [t |-> "dict", n |-> n]

\* Python truth value testing, as used by every `if x:` / `if not x:`.
Truthy(v) == v.t # "NoneType" /\ v.n # 0

DEFAULT_PARAMETERS ==
    [base_url |-> "https://your-api-url.here",
     temperature |-> "0.1",
     k |-> DEFAULT_K,
     chunk_overlap |-> DEFAULT_CHUNK_OVERLAP,
     index_type |-> "basic",
     rerank_k |-> PyNone]

(* ---------------- input domains ---------------- *)
BaseUrls == {DEFAULT_PARAMETERS.base_url, "https://other.example"}
IndexTypes == {"basic", "rerank"}
RerankKValues == DEFAULT_RERANK_K .. MaxRerankK
HistoryLimitValues == DEFAULT_HISTORY_LIMIT .. MaxHistoryLimit

\* Texts typed into the "Manual Keywords" field, as sequences of characters.
KeywordInputs ==
    { <<>>,
      <<" ", ",", " ">>,
      <<" ", "a", " ", ",", ",", "b">> }

\* Every text of at most MaxKeywordsLen characters over letters, blank, comma.
KeywordChars == {"a", "b", " ", ","}
RECURSIVE TextsUpTo(_)
TextsUpTo(n) ==
    IF n = 0 THEN {<<>>}
    ELSE LET shorter == TextsUpTo(n - 1)
         IN shorter \cup {Append(q, ch) : q \in shorter, ch \in KeywordChars}
AllKeywordTexts == TextsUpTo(MaxKeywordsLen)

(* ---------------- the HTTP service (environment) ---------------- *)
\* requests raises ConnectionError or Timeout from get/post, and HTTPError
\* from raise_for_status(); otherwise .json() returns the decoded body.
FailureKinds == {"ConnectionError", "Timeout", "HTTPError"}
Bodies == {PyDict(1), PyDict(0)}
Failures == [status : FailureKinds, body : {PyNone}]
Responses == [status : {"ok"}, body : Bodies] \cup Failures
\* The body of the /add-keywords response is never looked at.
KeywordResponses == [status : {"ok"}, body : {PyDict(1)}] \cup Failures
\* Stands for the response of a call that is not made.
NoResponse == [status |-> "ok", body |-> PyNone]

(* ---------------- decoded JSON bodies ---------------- *)
\* A dict is its set of keys and the values under them (a key that is not in
\* `keys` has no value).  d.get(key, default):
Get(d, key, default) == IF key \in d.keys THEN d[key] ELSE default

\* An element of retrieved_documents.
Document(keys, source, content_preview) ==
    [keys |-> keys, source |-> source, content_preview |-> content_preview]

\* An element of the conversation history.
Entry(keys, timestamp, query, answer) ==
    [keys |-> keys, timestamp |-> timestamp, query |-> query, answer |-> answer]

\* The decoded body of /query-with-details when it is a JSON object.
QueryBody(keys, answer, docs) ==
    [t |-> "dict", n |-> Cardinality(keys), keys |-> keys,
     answer |-> answer, retrieved_documents |-> docs]

\* The decoded body of /conversation-history when it is a JSON array.
HistoryBody(entries) == [t |-> "list", n |-> Len(entries), val |-> entries]

\* A non-empty JSON array where an object is expected.
ArrayBody == [t |-> "list", n |-> 1, val |-> <<>>]

Doc1 == Document({"source", "content_preview"}, "doc1", "abc")
Doc2 == Document({"source", "content_preview"}, "doc2", "def")
DocNoSource == Document({"content_preview"}, "", "ghi")
DocNoPreview == Document({"source"}, "doc4", "")
DocumentPool == {Doc1, Doc2, DocNoSource, DocNoPreview}

Entry1 == Entry({"timestamp", "query", "answer"}, "t1", "q1", "a1")
Entry2 == Entry({"timestamp", "query", "answer"}, "t2", "q2", "a2")
EntryPartial == Entry({"query"}, "", "q3", "")
EntryPool == {Entry1, Entry2, EntryPartial}

RECURSIVE SeqsUpTo(_, _)
SeqsUpTo(S, n) ==
    IF n = 0 THEN {<<>>}
    ELSE LET shorter == SeqsUpTo(S, n - 1)
         IN shorter \cup {Append(q, e) : q \in shorter, e \in S}

\* The bodies a run of the whole program is checked with.
QueryBodies == {QueryBody({"answer", "retrieved_documents"}, "42", <<Doc1>>),
                QueryBody({}, "", <<>>)}
HistoryBodies == {HistoryBody(<<Entry1>>), HistoryBody(<<>>)}
QueryResponses == [status : {"ok"}, body : QueryBodies] \cup Failures
HistoryResponses == [status : {"ok"}, body : HistoryBodies] \cup Failures

\* The bodies the rendering is checked with: objects with and without an
\* answer, with and without documents, documents with missing fields.
AllQueryBodies ==
    {QueryBody({"answer", "retrieved_documents"}, "42", docs) :
        docs \in SeqsUpTo(DocumentPool, MaxDocs)}
    \cup {QueryBody({"retrieved_documents"}, "", docs) :
        docs \in SeqsUpTo(DocumentPool, MaxDocs)}
    \cup {QueryBody({"answer"}, "42", <<>>), QueryBody({"other"}, "", <<>>),
          QueryBody({}, "", <<>>), ArrayBody}
AllHistoryBodies == {HistoryBody(es) : es \in SeqsUpTo(EntryPool, MaxEntries)}
AllQueryResponses == [status : {"ok"}, body : AllQueryBodies] \cup Failures
AllHistoryResponses == [status : {"ok"}, body : AllHistoryBodies] \cup Failures

\* A narrower except clause (requests.exceptions.HTTPError): connection
\* errors and timeouts are not caught.
IsHTTPError(kind) == kind = "HTTPError"

\* `except requests.exceptions.RequestException`: the three kinds are
\* subclasses of RequestException.
IsRequestException(kind) == kind \in {"ConnectionError", "Timeout", "HTTPError"}

NoPayload ==
    [keywords |-> <<>>, index_type |-> "", rerank_k |-> PyNone,
     k |-> 0, chunk_overlap |-> 0, temperature |-> "",
     query |-> "", history_context_limit |-> PyNone, limit |-> PyNone]

Call(ep, url, timeout, payload, resp) ==
    [ep |-> ep, url |-> url, timeout |-> timeout, payload |-> payload,
     status |-> resp.status, response |-> resp.body]

ErrorMsg(text) == [level |-> "error", text |-> text]

\* What a stage hands back: the calls it made, the messages it showed, its
\* return value and whether an exception left it.
Returned(calls, ret) == [calls |-> calls, msgs |-> <<>>, ret |-> ret, raised |-> FALSE]
Nothing == Returned(<<>>, PyNone)
Failed(calls, text) ==
    [calls |-> calls, msgs |-> <<ErrorMsg(text)>>, ret |-> PyNone, raised |-> FALSE]
Raised(calls) == [calls |-> calls, msgs |-> <<>>, ret |-> PyNone, raised |-> TRUE]

\* A health check that is attempted a second time after a failure.
check_api_health_retry(url, resp) ==
    LET c == Call("/health", url, HEALTH_TIMEOUT, NoPayload, resp)
    IN IF resp.status = "ok" THEN Returned(<<c>>, resp.body)
       ELSE Failed(<<c, c>>, "API Health Check failed")

check_api_health(url, resp) ==
    LET c == Call("/health", url, HEALTH_TIMEOUT, NoPayload, resp)
    IN IF resp.status = "ok" THEN Returned(<<c>>, resp.body)
       ELSE IF IsRequestException(resp.status)
            THEN Failed(<<c>>, "API Health Check failed")
            ELSE Raised(<<c>>)

set_api_parameters(url, params, resp) ==
    LET body == [NoPayload EXCEPT !.temperature = params.temperature,
                                  !.k = params.k,
                                  !.chunk_overlap = params.chunk_overlap,
                                  !.rerank_k = params.rerank_k,
                                  !.index_type = params.index_type]
        c == Call("/set-parameters", url, SET_PARAMETERS_TIMEOUT, body, resp)
    IN IF resp.status = "ok" THEN Returned(<<c>>, resp.body)
       ELSE IF IsRequestException(resp.status)
            THEN Failed(<<c>>, "Failed to set parameters")
            ELSE Raised(<<c>>)

\* An except clause that reports the error and raises it again.
add_manual_keywords_reraise(url, keywords, resp) ==
    IF ~Truthy(PyList(keywords)) THEN Nothing
    ELSE LET c == Call("/add-keywords", url, ADD_KEYWORDS_TIMEOUT,
                       [NoPayload EXCEPT !.keywords = keywords], resp)
         IN IF resp.status = "ok" THEN Returned(<<c>>, resp.body)
            ELSE [Failed(<<c>>, "Failed to add keywords") EXCEPT !.raised = TRUE]

add_manual_keywords(url, keywords, resp) ==
    IF ~Truthy(PyList(keywords)) THEN Nothing
    ELSE LET c == Call("/add-keywords", url, ADD_KEYWORDS_TIMEOUT,
                       [NoPayload EXCEPT !.keywords = keywords], resp)
         IN IF resp.status = "ok" THEN Returned(<<c>>, resp.body)
            ELSE IF IsRequestException(resp.status)
                 THEN Failed(<<c>>, "Failed to add keywords")
                 ELSE Raised(<<c>>)

\* An except clause that reports the error and raises it again.
query_rag_api_reraise(url, user_query, manual_keywords, history_limit, resp) ==
    LET query_params ==
            IF Truthy(history_limit)
            THEN [NoPayload EXCEPT !.query = user_query,
                                   !.history_context_limit = history_limit]
            ELSE [NoPayload EXCEPT !.query = user_query]
        c == Call("/query-with-details", url, QUERY_TIMEOUT, query_params, resp)
    IN IF resp.status = "ok" THEN Returned(<<c>>, resp.body)
       ELSE [Failed(<<c>>, "Query failed") EXCEPT !.raised = TRUE]

query_rag_api(url, user_query, manual_keywords, history_limit, resp) ==
    LET query_params ==
            IF Truthy(history_limit)
            THEN [NoPayload EXCEPT !.query = user_query,
                                   !.history_context_limit = history_limit]
            ELSE [NoPayload EXCEPT !.query = user_query]
        c == Call("/query-with-details", url, QUERY_TIMEOUT, query_params, resp)
    IN IF resp.status = "ok" THEN Returned(<<c>>, resp.body)
       ELSE IF IsRequestException(resp.status)
            THEN Failed(<<c>>, "Query failed")
            ELSE Raised(<<c>>)

get_conversation_history(url, history_limit, resp) ==
    IF ~Truthy(history_limit) THEN Nothing
    ELSE LET c == Call("/conversation-history", url, HISTORY_TIMEOUT,
                       [NoPayload EXCEPT !.limit = history_limit], resp)
         IN IF resp.status = "ok" THEN Returned(<<c>>, resp.body)
            ELSE IF IsRequestException(resp.status)
                 THEN Failed(<<c>>, "Failed to retrieve conversation history")
                 ELSE Raised(<<c>>)

(* ---------------- the keyword field ---------------- *)
IsSpace(ch) == ch = " "

RECURSIVE lstrip(_)
lstrip(s) == IF s # <<>> /\ IsSpace(Head(s)) THEN lstrip(Tail(s)) ELSE s

RECURSIVE rstrip(_)
rstrip(s) ==
    IF s # <<>> /\ IsSpace(s[Len(s)]) THEN rstrip(SubSeq(s, 1, Len(s) - 1)) ELSE s

\* Only leading whitespace removed (str.lstrip()).
strip_leading_only(s) == lstrip(s)

\* str.strip()
strip(s) == rstrip(lstrip(s))

\* str.split(","): the pieces between the commas, empty pieces included.
RECURSIVE SplitFrom(_, _)
SplitFrom(s, piece) ==
    IF s = <<>> THEN <<piece>>
    ELSE IF Head(s) = "," THEN <<piece>> \o SplitFrom(Tail(s), <<>>)
    ELSE SplitFrom(Tail(s), Append(piece, Head(s)))

split(s) == SplitFrom(s, <<>>)

RECURSIVE StripNonEmpty(_)
StripNonEmpty(pieces) ==
    IF pieces = <<>> THEN <<>>
    ELSE IF Truthy(PyStr(strip(Head(pieces))))
         THEN <<strip(Head(pieces))>> \o StripNonEmpty(Tail(pieces))
         ELSE StripNonEmpty(Tail(pieces))

RECURSIVE StripAll(_)
StripAll(pieces) ==
    IF pieces = <<>> THEN <<>>
    ELSE <<strip(Head(pieces))>> \o StripAll(Tail(pieces))

\* The comprehension without its `if kw.strip()` filter.
manual_keywords_list_unfiltered(text) == StripAll(split(text))

\* [kw.strip() for kw in manual_keywords.split(",") if kw.strip()]
manual_keywords_list(text) == StripNonEmpty(split(text))

(* ---------------- one script run ---------------- *)
InfoMsg(text) == [level |-> "info", text |-> text]
SuccessMsg(text) == [level |-> "success", text |-> text]
Subheader(text) == [level |-> "subheader", text |-> text]

\* Two stages one after the other; an exception that left the first one ends
\* the run.
Then(a, b) ==
    IF a.raised THEN a
    ELSE [calls |-> a.calls \o b.calls, msgs |-> a.msgs \o b.msgs,
          ret |-> b.ret, raised |-> b.raised]

Show(msgs) == [calls |-> <<>>, msgs |-> msgs, ret |-> PyNone, raised |-> FALSE]

\* The sidebar block of main() when "Submit Parameters" was pressed.
SubmitRun(params, r_health, r_set) ==
    LET AfterSet(set_status) ==
            IF set_status.raised \/ ~Truthy(set_status.ret) THEN set_status
            ELSE Then(set_status,
                      Show(<<SuccessMsg("Parameters successfully submitted!")>>))
        AfterHealth(health_status) ==
            IF health_status.raised \/ ~Truthy(health_status.ret) THEN health_status
            ELSE Then(health_status,
                      AfterSet(set_api_parameters(params.base_url, params, r_set)))
    IN AfterHealth(check_api_health(params.base_url, r_health))

\* history_limit = st.number_input(...) if show_history else None
HistoryLimit(show, widget) == IF Truthy(PyBool(show)) THEN PyInt(widget) ELSE PyNone

\* if manual_keywords_list: add_manual_keywords(...)
KeywordStage(url, keywords, resp) ==
    IF Truthy(PyList(keywords)) THEN add_manual_keywords(url, keywords, resp)
    ELSE Nothing

\* st.write
Write(label, value) == [level |-> "write", text |-> label, value |-> value]
DocumentTitle(i) == [level |-> "write", text |-> "**Document:**", index |-> i]
Divider == Write("---", "")

\* for i, doc in enumerate(result.get('retrieved_documents', []), 1): ...
RECURSIVE RenderDocuments(_, _)
RenderDocuments(docs, i) ==
    IF docs = <<>> THEN <<>>
    ELSE << DocumentTitle(i),
            Write("Source:", Get(Head(docs), "source", "Unknown")),
            Write("Content Preview:", Get(Head(docs), "content_preview", "No preview")) >>
         \o RenderDocuments(Tail(docs), i + 1)

\* Entries with a divider between them only, none after the last one.
RECURSIVE RenderHistory_between(_)
RenderHistory_between(entries) ==
    IF entries = <<>> THEN <<>>
    ELSE << Write("**Timestamp:**", Get(Head(entries), "timestamp", "N/A")),
            Write("**Query:**", Get(Head(entries), "query", "N/A")),
            Write("**Answer:**", Get(Head(entries), "answer", "N/A")) >>
         \o (IF Tail(entries) = <<>> THEN <<>> ELSE <<Divider>>)
         \o RenderHistory_between(Tail(entries))

\* for entry in history: ...
RECURSIVE RenderHistory(_)
RenderHistory(entries) ==
    IF entries = <<>> THEN <<>>
    ELSE << Write("**Timestamp:**", Get(Head(entries), "timestamp", "N/A")),
            Write("**Query:**", Get(Head(entries), "query", "N/A")),
            Write("**Answer:**", Get(Head(entries), "answer", "N/A")),
            Divider >>
         \o RenderHistory(Tail(entries))

\* result = query_rag_api(...); if result: render it.  A result that is not
\* a dict has no .get: the AttributeError leaves main().
QueryStage(url, user_query, keywords, history_limit, resp) ==
    LET Render(result) ==
            IF result.raised \/ ~Truthy(result.ret) THEN result
            ELSE IF result.ret.t # "dict"
            THEN [Then(result, Show(<<Subheader("Query Response")>>))
                     EXCEPT !.raised = TRUE]
            ELSE Then(result,
                      Show(<<Subheader("Query Response"),
                             Write("**Answer:**", Get(result.ret, "answer", "No answer")),
                             Subheader("Retrieved Documents")>>
                           \o RenderDocuments(Get(result.ret, "retrieved_documents", <<>>), 1)))
    IN Render(query_rag_api(url, user_query, keywords, history_limit, resp))

\* The history stage with the request issued whatever the toggle and the
\* limit are.
HistoryStage_unguarded(url, show, history_limit, resp) ==
    LET c == Call("/conversation-history", url, HISTORY_TIMEOUT,
                  [NoPayload EXCEPT !.limit = history_limit], resp)
    IN IF resp.status = "ok"
       THEN Then(Returned(<<c>>, resp.body), Show(<<Subheader("Conversation History")>>))
       ELSE Failed(<<c>>, "Failed to retrieve conversation history")

\* if show_history: history = get_conversation_history(...); if history: ...
HistoryStage(url, show, history_limit, resp) ==
    LET Render(history) ==
            IF history.raised \/ ~Truthy(history.ret) THEN history
            ELSE Then(history, Show(<<Subheader("Conversation History")>>
                                    \o RenderHistory(history.ret.val)))
    IN IF Truthy(PyBool(show))
       THEN Render(get_conversation_history(url, history_limit, resp))
       ELSE Nothing

\* The main-page block of main() when "Execute Query" was pressed: its three
\* stages in the order of the code.
ExecuteRun(keyword_stage, query_stage, history_stage) ==
    Then(keyword_stage, Then(query_stage, history_stage))

(* ---------------- state ---------------- *)
VARIABLES
    base_url,          \* sidebar: "Base URL"
    session_state,     \* st.session_state
    manual_keywords,   \* main page: "Manual Keywords"
    show_history,      \* main page: "Show Conversation History"
    limit_widget,      \* main page: "Conversation History Limit"
    runKind,           \* what triggered the latest run
    runLog,            \* the HTTP calls of the latest run, in order
    messages,          \* what the latest run showed
    raised,            \* an exception left main() in the latest run
    submitLog          \* the HTTP calls of the latest Submit Parameters run

vars == <<base_url, session_state, manual_keywords, show_history,
          limit_widget, runKind, runLog, messages, raised, submitLog>>

mainPage == <<manual_keywords, show_history, limit_widget>>

HasSubmitted(ss) == "submitted_params" \in DOMAIN ss

USER_QUERY == "Enter your query"

\* A run in which no button is pressed: only the page is drawn.
Rerun(ss) ==
    /\ runKind' = "rerun"
    /\ runLog' = <<>>
    /\ messages' = IF HasSubmitted(ss) THEN <<>>
                   ELSE <<InfoMsg("Please submit parameters in the sidebar before proceeding.")>>
    /\ raised' = FALSE

\* A session that starts with the default parameters already stored.
Init_prefilled ==
    /\ base_url = DEFAULT_PARAMETERS.base_url
    /\ session_state = [submitted_params |-> DEFAULT_PARAMETERS]
    /\ manual_keywords = <<>>
    /\ show_history = FALSE
    /\ limit_widget = DEFAULT_HISTORY_LIMIT
    /\ runKind = "rerun"
    /\ runLog = <<>>
    /\ messages = <<>>
    /\ raised = FALSE
    /\ submitLog = <<>>

Init ==
    /\ base_url = DEFAULT_PARAMETERS.base_url
    /\ session_state = <<>>
    /\ manual_keywords = <<>>
    /\ show_history = FALSE
    /\ limit_widget = DEFAULT_HISTORY_LIMIT
    /\ runKind = "rerun"
    /\ runLog = <<>>
    /\ messages = <<InfoMsg("Please submit parameters in the sidebar before proceeding.")>>
    /\ raised = FALSE
    /\ submitLog = <<>>

(* ---------------- widget edits ---------------- *)
SetBaseUrl ==
    \E u \in BaseUrls \ {base_url} :
        /\ base_url' = u
        /\ Rerun(session_state)
        /\ UNCHANGED <<session_state, mainPage, submitLog>>

SetManualKeywords ==
    /\ HasSubmitted(session_state)
    /\ \E text \in KeywordInputs \ {manual_keywords} :
        /\ manual_keywords' = text
        /\ Rerun(session_state)
        /\ UNCHANGED <<base_url, session_state, show_history, limit_widget, submitLog>>

\* The limit input exists only while the box is ticked, and starts at its
\* default value when it appears.
ToggleShowHistory ==
    /\ HasSubmitted(session_state)
    /\ show_history' = ~show_history
    /\ limit_widget' = DEFAULT_HISTORY_LIMIT
    /\ Rerun(session_state)
    /\ UNCHANGED <<base_url, session_state, manual_keywords, submitLog>>

SetHistoryLimit ==
    /\ HasSubmitted(session_state)
    /\ show_history
    /\ \E v \in HistoryLimitValues \ {limit_widget} :
        /\ limit_widget' = v
        /\ Rerun(session_state)
        /\ UNCHANGED <<base_url, session_state, manual_keywords, show_history, submitLog>>

(* ---------------- the buttons ---------------- *)
\* The "Rerank k" input read whatever the index type is.
RerankK_always(index_type, widget) == PyInt(widget)

\* rerank_k = None; if index_type == "rerank": rerank_k = st.number_input(...)
RerankK(index_type, widget) == IF index_type = "rerank" THEN PyInt(widget) ELSE PyNone

\* The other sidebar inputs are read as the button is pressed.  The response
\* to a call that the run does not make is not chosen.
SubmitParameters ==
    \E index_type \in IndexTypes, rerank_widget \in RerankKValues :
      /\ index_type = "basic" => rerank_widget = DEFAULT_RERANK_K
      /\ \E r_health \in Responses :
         \E r_set \in IF r_health.status = "ok" /\ Truthy(r_health.body)
                      THEN Responses ELSE {NoResponse} :
           LET params == [base_url |-> base_url,
                          temperature |-> DEFAULT_PARAMETERS.temperature,
                          k |-> DEFAULT_PARAMETERS.k,
                          chunk_overlap |-> DEFAULT_PARAMETERS.chunk_overlap,
                          index_type |-> index_type,
                          rerank_k |-> RerankK(index_type, rerank_widget)]
           IN \E run \in {SubmitRun(params, r_health, r_set)} :
              /\ session_state' = [submitted_params |-> params]
              /\ runKind' = "submit"
              /\ runLog' = run.calls
              /\ messages' = run.msgs
              /\ raised' = run.raised
              /\ submitLog' = run.calls
              /\ UNCHANGED <<base_url, mainPage>>

\* The base URL as it stands in the sidebar.
SidebarBaseUrl(ss, sidebar_url) == sidebar_url

\* st.session_state.submitted_params['base_url']
StoredBaseUrl(ss, sidebar_url) == ss.submitted_params.base_url

\* A press of "Execute Query" answered by responses from the given sets.
\* The keyword list and the history limit are computed on the way down the
\* page, before the button is looked at.
ExecuteQueryWith(QueryResps, HistoryResps) ==
    /\ HasSubmitted(session_state)
    /\ \E url \in {StoredBaseUrl(session_state, base_url)},
          keywords \in {manual_keywords_list(manual_keywords)},
          history_limit \in {HistoryLimit(show_history, limit_widget)} :
       \E r_kw \in IF keywords # <<>> THEN KeywordResponses ELSE {NoResponse} :
       \E keyword_stage \in {KeywordStage(url, keywords, r_kw)} :
       \E r_query \in QueryResps :
       \E query_stage \in {QueryStage(url, USER_QUERY, keywords, history_limit, r_query)} :
       \E r_hist \in IF show_history THEN HistoryResps ELSE {NoResponse} :
       \E history_stage \in {HistoryStage(url, show_history, history_limit, r_hist)} :
        \E run \in {ExecuteRun(keyword_stage, query_stage, history_stage)} :
           /\ runKind' = "execute"
           /\ runLog' = run.calls
           /\ messages' = run.msgs
           /\ raised' = run.raised
           /\ UNCHANGED <<base_url, session_state, mainPage, submitLog>>

ExecuteQuery == ExecuteQueryWith(QueryResponses, HistoryResponses)

Next ==
    \/ SetBaseUrl
    \/ SetManualKeywords
    \/ ToggleShowHistory
    \/ SetHistoryLimit
    \/ SubmitParameters
    \/ ExecuteQuery

Spec == Init /\ [][Next]_vars

(* ---------------- rendering of the responses ---------------- *)
\* The session after a first, successful press of "Submit Parameters" with
\* the default inputs.
OkResponse == [status |-> "ok", body |-> PyDict(1)]

AfterFirstSubmit ==
    \E run \in {SubmitRun(DEFAULT_PARAMETERS, OkResponse, OkResponse)} :
        /\ base_url = DEFAULT_PARAMETERS.base_url
        /\ session_state = [submitted_params |-> DEFAULT_PARAMETERS]
        /\ show_history = FALSE
        /\ limit_widget = DEFAULT_HISTORY_LIMIT
        /\ runKind = "submit"
        /\ runLog = run.calls
        /\ messages = run.msgs
        /\ raised = run.raised
        /\ submitLog = run.calls

InitRender == AfterFirstSubmit /\ manual_keywords = <<>>

\* "Execute Query" answered by any /query-with-details body.
ExecuteQueryAnyAnswer == ExecuteQueryWith(AllQueryResponses, HistoryResponses)
\* "Execute Query" answered by any /conversation-history body.
ExecuteQueryAnyHistory == ExecuteQueryWith(QueryResponses, AllHistoryResponses)

NextRender ==
    \/ ToggleShowHistory
    \/ ExecuteQueryAnyAnswer
    \/ ExecuteQueryAnyHistory

SpecRender == InitRender /\ [][NextRender]_vars

(* ---------------- the keyword field, any text ---------------- *)
InitKeywords == AfterFirstSubmit /\ manual_keywords \in AllKeywordTexts

NextKeywords == ExecuteQuery

SpecKeywords == InitKeywords /\ [][NextKeywords]_vars

TypeOK ==
    /\ base_url \in BaseUrls
    /\ manual_keywords \in KeywordInputs
    /\ show_history \in BOOLEAN
    /\ limit_widget \in HistoryLimitValues
    /\ runKind \in {"rerun", "submit", "execute"}
    /\ raised \in BOOLEAN

(* ---------------- reading the logs ---------------- *)
HasCall(log, ep) == \E i \in 1..Len(log) : log[i].ep = ep
HasFailedCall(log, ep) == \E i \in 1..Len(log) : log[i].ep = ep /\ log[i].status # "ok"
CallsTo(log, ep) == SelectSeq(log, LAMBDA c : c.ep = ep)
FailedCallsTo(log, ep) == SelectSeq(log, LAMBDA c : c.ep = ep /\ c.status # "ok")
ErrorsWith(msgs, text) == SelectSeq(msgs, LAMBDA m : m.level = "error" /\ m.text = text)
Errors(msgs) == SelectSeq(msgs, LAMBDA m : m.level = "error")
FailedCalls(log) == SelectSeq(log, LAMBDA c : c.status # "ok")

\* c1 comes before c2 in the log
Before(log, ep1, ep2) ==
    \A i, j \in 1..Len(log) : (log[i].ep = ep1 /\ log[j].ep = ep2) => i < j

ErrorText(ep) ==
    CASE ep = "/health" -> "API Health Check failed"
      [] ep = "/set-parameters" -> "Failed to set parameters"
      [] ep = "/add-keywords" -> "Failed to add keywords"
      [] ep = "/query-with-details" -> "Query failed"
      [] ep = "/conversation-history" -> "Failed to retrieve conversation history"

Endpoints ==
    {"/health", "/set-parameters", "/add-keywords", "/query-with-details",
     "/conversation-history"}

\* The health check of the latest Submit Parameters press failed.
LastHealthFailed == HasFailedCall(submitLog, "/health")
\* The /set-parameters call of the latest Submit Parameters press failed.
LastSetFailed == HasFailedCall(submitLog, "/set-parameters")

\* The calls of one pipeline: those of the latest Submit Parameters press
\* followed by those of the Execute Query press that came after it.
Pipeline == IF runKind = "execute" THEN submitLog \o runLog ELSE runLog

StageRank(ep) ==
    CASE ep = "/health" -> 1
      [] ep = "/add-keywords" -> 2
      [] ep = "/set-parameters" -> 3
      [] ep = "/query-with-details" -> 4
      [] ep = "/conversation-history" -> 5

OnlyCommasAndSpaces(text) == \A i \in 1..Len(text) : text[i] \in {",", " "}

(* ---------------- claims ---------------- *)

\* C1: while the health check of the latest Submit Parameters press has
\* failed, no run issues a call other than /health: not /set-parameters in
\* the Submit run, and none of /add-keywords, /query-with-details and
\* /conversation-history in an Execute Query run that follows.
C1_HealthFailureStopsEverything ==
    LastHealthFailed =>
        \A i \in 1..Len(runLog) : runLog[i].ep = "/health"

\* C2: after a Submit Parameters press whose /set-parameters call failed, an
\* Execute Query run issues neither /query-with-details nor
\* /conversation-history.
C2_SetFailureStopsQuery ==
    (runKind = "execute" /\ LastSetFailed) =>
        /\ ~HasCall(runLog, "/query-with-details")
        /\ ~HasCall(runLog, "/conversation-history")

\* C3: in every run, each call other than /health is preceded by a /health
\* call of the same run.
C3_HealthCheckFirst ==
    \A i \in 1..Len(runLog) :
        runLog[i].ep # "/health" =>
            \E j \in 1..(i - 1) : runLog[j].ep = "/health"

\* C4: in a Submit Parameters run, a first /set-parameters attempt that times
\* out was made with timeout 60 and is followed by exactly one retry with
\* timeout 240 and the same body; a first attempt that does not time out is
\* the only one; there are never more than two attempts.
C4_RetryOnceOnTimeout ==
    runKind = "submit" =>
        LET attempts == CallsTo(runLog, "/set-parameters")
        IN /\ Len(attempts) <= 2
           /\ (Len(attempts) >= 1 /\ attempts[1].status = "Timeout") =>
                  /\ attempts[1].timeout = 60
                  /\ Len(attempts) = 2
                  /\ attempts[2].timeout = 240
                  /\ attempts[2].payload = attempts[1].payload
           /\ (Len(attempts) >= 1 /\ attempts[1].status # "Timeout") =>
                  Len(attempts) = 1

\* C5: the calls of one pipeline come in the strict order health,
\* add-keywords, set-parameters, query-with-details, conversation-history.
C5_StrictStageOrder ==
    \A i, j \in 1..Len(Pipeline) :
        i < j => StageRank(Pipeline[i].ep) < StageRank(Pipeline[j].ep)

\* C6: an Execute Query run whose keyword input is empty or holds only commas
\* and whitespace issues no /add-keywords call.
C6_EmptyKeywordsNoCall ==
    (runKind = "execute" /\ OnlyCommasAndSpaces(manual_keywords)) =>
        ~HasCall(runLog, "/add-keywords")

C6_Witness ==
    /\ runKind = "execute"
    /\ manual_keywords = <<" ", ",", " ">>
    /\ HasCall(runLog, "/query-with-details")

\* C7: an Execute Query run with the show-history toggle off (so that the
\* history limit is None) issues no /conversation-history call, whether its
\* query call succeeded or failed.
C7_NoLimitNoHistoryCall ==
    (runKind = "execute" /\ ~show_history) =>
        ~HasCall(runLog, "/conversation-history")

C7_Witness ==
    /\ runKind = "execute"
    /\ ~show_history
    /\ HasFailedCall(runLog, "/query-with-details")

\* C8: an Execute Query run whose query call failed while the history limit
\* is set shows the query error once and still issues /conversation-history,
\* after the query call.
C8_QueryFailureStillGetsHistory ==
    (runKind = "execute" /\ show_history /\ HasFailedCall(runLog, "/query-with-details")) =>
        /\ Len(ErrorsWith(messages, "Query failed")) = 1
        /\ Len(CallsTo(runLog, "/conversation-history")) = 1
        /\ Before(runLog, "/query-with-details", "/conversation-history")

C8_Witness ==
    /\ runKind = "execute"
    /\ show_history
    /\ HasFailedCall(runLog, "/query-with-details")
    /\ HasCall(runLog, "/conversation-history")

\* C9: an Execute Query run whose /add-keywords call failed shows that error
\* once and still issues /query-with-details, after the /add-keywords call.
C9_KeywordFailureStillQueries ==
    (runKind = "execute" /\ HasFailedCall(runLog, "/add-keywords")) =>
        /\ Len(ErrorsWith(messages, "Failed to add keywords")) = 1
        /\ Len(CallsTo(runLog, "/query-with-details")) = 1
        /\ Before(runLog, "/add-keywords", "/query-with-details")

C9_Witness ==
    /\ runKind = "execute"
    /\ HasFailedCall(runLog, "/add-keywords")
    /\ HasCall(runLog, "/query-with-details")

\* C10: in every run no exception leaves main(), and for every stage the
\* number of error messages of that stage equals the number of its failed
\* calls; no other error message is shown.
C10_OneMessagePerFailure ==
    /\ ~raised
    /\ \A ep \in Endpoints :
           Len(ErrorsWith(messages, ErrorText(ep))) = Len(FailedCallsTo(runLog, ep))
    /\ Len(Errors(messages)) = Len(FailedCalls(runLog))

C10_Witness ==
    /\ runKind = "execute"
    /\ HasFailedCall(runLog, "/add-keywords")
    /\ HasFailedCall(runLog, "/query-with-details")
    /\ HasFailedCall(runLog, "/conversation-history")
    /\ Len(Errors(messages)) = 3

(* ---------------- claims about rendering and inputs ---------------- *)
HasOkCall(log, ep) == \E i \in 1..Len(log) : log[i].ep = ep /\ log[i].status = "ok"
\* The decoded body of the first call to ep.
BodyOf(log, ep) == CallsTo(log, ep)[1].response

DocumentLines(msgs) ==
    SelectSeq(msgs, LAMBDA m : m.level = "write"
                               /\ m.text \in {"**Document:**", "Source:", "Content Preview:"})
Dividers(msgs) == SelectSeq(msgs, LAMBDA m : m.level = "write" /\ m.text = "---")

\* What was shown after the "Conversation History" heading.
HistoryLines(msgs) ==
    LET at == {i \in 1..Len(msgs) : msgs[i] = Subheader("Conversation History")}
    IN IF at = {} THEN <<>>
       ELSE SubSeq(msgs, (CHOOSE i \in at : TRUE) + 1, Len(msgs))

\* C11: after a successful query whose body is a non-empty object, the answer
\* is shown and every retrieved document is shown in the order received as a
\* 1-based title, its source ("Unknown" when missing) and its content preview
\* ("No preview available" when missing).
C11_DocumentsRendered ==
    (/\ runKind = "execute"
     /\ HasOkCall(runLog, "/query-with-details")
     /\ BodyOf(runLog, "/query-with-details").t = "dict"
     /\ Truthy(BodyOf(runLog, "/query-with-details"))) =>
        LET body == BodyOf(runLog, "/query-with-details")
            docs == IF "retrieved_documents" \in body.keys
                    THEN body.retrieved_documents ELSE <<>>
            lines == DocumentLines(messages)
        IN /\ "answer" \in body.keys =>
                  \E i \in 1..Len(messages) : messages[i] = Write("**Answer:**", body.answer)
           /\ Len(lines) = 3 * Len(docs)
           /\ \A k \in 1..Len(docs) :
                  /\ lines[3 * k - 2] = DocumentTitle(k)
                  /\ lines[3 * k - 1] =
                         Write("Source:", IF "source" \in docs[k].keys
                                          THEN docs[k].source ELSE "Unknown")
                  /\ lines[3 * k] =
                         Write("Content Preview:",
                               IF "content_preview" \in docs[k].keys
                               THEN docs[k].content_preview ELSE "No preview available")

\* C12: after a successful history retrieval that returned n entries, what is
\* shown under the history heading is, for each entry in the order received,
\* its timestamp, query and answer ("N/A" for a missing field) followed by a
\* divider; exactly n dividers are shown.
C12_HistoryRendered ==
    (runKind = "execute" /\ HasOkCall(runLog, "/conversation-history")) =>
        LET entries == BodyOf(runLog, "/conversation-history").val
            n == Len(entries)
            lines == HistoryLines(messages)
            Field(e, key) == IF key \in e.keys THEN e[key] ELSE "N/A"
        IN /\ Len(Dividers(messages)) = n
           /\ Len(lines) = 4 * n
           /\ \A k \in 1..n :
                  /\ lines[4 * k - 3] = Write("**Timestamp:**", Field(entries[k], "timestamp"))
                  /\ lines[4 * k - 2] = Write("**Query:**", Field(entries[k], "query"))
                  /\ lines[4 * k - 1] = Write("**Answer:**", Field(entries[k], "answer"))
                  /\ lines[4 * k] = Divider

C12_Witness ==
    /\ runKind = "execute"
    /\ HasOkCall(runLog, "/conversation-history")
    /\ BodyOf(runLog, "/conversation-history").val = <<Entry2, EntryPartial, Entry1>>
    /\ Len(Dividers(messages)) = 3

\* C13: in one run each of /health, /add-keywords, /query-with-details and
\* /conversation-history is called at most once, whatever its outcome.
C13_NoRetryOutsideSetParameters ==
    \A ep \in {"/health", "/add-keywords", "/query-with-details", "/conversation-history"} :
        Len(CallsTo(runLog, ep)) <= 1

C13_Witness ==
    /\ runKind = "submit"
    /\ HasFailedCall(runLog, "/health")
    /\ Len(runLog) = 1

\* C14: in the stored parameter set and in the body of every /set-parameters
\* request, rerank_k is not None exactly when index_type is "rerank".
RerankConsistent(r) == (r.rerank_k.t # "NoneType") <=> (r.index_type = "rerank")

C14_RerankKIffRerank ==
    /\ HasSubmitted(session_state) => RerankConsistent(session_state.submitted_params)
    /\ \A i \in 1..Len(runLog) :
           runLog[i].ep = "/set-parameters" => RerankConsistent(runLog[i].payload)
    /\ \A i \in 1..Len(submitLog) :
           submitLog[i].ep = "/set-parameters" => RerankConsistent(submitLog[i].payload)

C14_Witness ==
    /\ runKind = "submit"
    /\ session_state.submitted_params.index_type = "rerank"
    /\ session_state.submitted_params.rerank_k = PyInt(DEFAULT_RERANK_K)
    /\ HasCall(runLog, "/set-parameters")

\* The keyword list the input stands for, read off the text: the stretches
\* between consecutive commas that hold a non-blank character, each from its
\* first to its last non-blank character, in the order of the text.
ExpectedKeywords(text) ==
    LET cuts == {0, Len(text) + 1} \cup {i \in 1..Len(text) : text[i] = ","}
        stretches == {p \in cuts \X cuts :
                         /\ p[1] < p[2]
                         /\ ~\E c \in cuts : p[1] < c /\ c < p[2]}
        Core(p) == {i \in (p[1] + 1)..(p[2] - 1) : text[i] # " "}
        kept == {p \in stretches : Core(p) # {}}
        First(p) == CHOOSE i \in Core(p) : \A j \in Core(p) : i <= j
        Last(p) == CHOOSE i \in Core(p) : \A j \in Core(p) : j <= i
        Nth(k) == CHOOSE p \in kept : Cardinality({q \in kept : q[1] < p[1]}) = k - 1
    IN [k \in 1..Cardinality(kept) |-> SubSeq(text, First(Nth(k)), Last(Nth(k)))]

\* C15: the list sent to /add-keywords is the comma-separated pieces of the
\* input, trimmed, without the pieces that are empty after trimming, in input
\* order; no element is empty or starts or ends with whitespace.
C15_KeywordsSplitTrimmedFiltered ==
    \A i \in 1..Len(runLog) :
        runLog[i].ep = "/add-keywords" =>
            LET sent == runLog[i].payload.keywords
            IN /\ sent = ExpectedKeywords(manual_keywords)
               /\ \A k \in 1..Len(sent) :
                      /\ sent[k] # <<>>
                      /\ sent[k][1] # " "
                      /\ sent[k][Len(sent[k])] # " "

C15_Witness ==
    /\ runKind = "execute"
    /\ manual_keywords = <<"b", " ", ",", "a">>
    /\ HasCall(runLog, "/add-keywords")
    /\ CallsTo(runLog, "/add-keywords")[1].payload.keywords = << <<"b">>, <<"a">> >>

\* C16: a Submit Parameters run whose health check got a 2xx response issues
\* /set-parameters, whatever the response body is.
C16_HealthOkMeansSetParameters ==
    (runKind = "submit" /\ HasOkCall(runLog, "/health")) =>
        HasCall(runLog, "/set-parameters")

\* C17: an Execute Query run whose query call got a 2xx response shows the
\* "Query Response" heading followed by an answer line, with the fallback text
\* when the body has no answer.
C17_QueryOkMeansAnswerShown ==
    (runKind = "execute" /\ HasOkCall(runLog, "/query-with-details")) =>
        LET body == BodyOf(runLog, "/query-with-details")
        IN \E i \in 1..(Len(messages) - 1) :
               /\ messages[i] = Subheader("Query Response")
               /\ messages[i + 1] =
                      Write("**Answer:**",
                            IF body.t = "dict" /\ "answer" \in body.keys
                            THEN body.answer ELSE "No answer")

\* C18: a press of Execute Query leaves the stored parameters as they were and
\* sends every call of the run to the stored base URL.
C18_ExecuteUsesStoredParams ==
    [][runKind' = "execute" =>
          /\ session_state' = session_state
          /\ \A i \in 1..Len(runLog') :
                 runLog'[i].url = session_state.submitted_params.base_url]_vars

C18_Witness ==
    /\ runKind = "execute"
    /\ base_url # session_state.submitted_params.base_url
    /\ Len(runLog) = 3
    /\ \A i \in 1..3 : runLog[i].url = session_state.submitted_params.base_url

\* C19: as long as Submit Parameters has not been pressed, no call has been
\* issued, no Execute Query run has taken place, nothing is stored and only
\* the prompt to submit parameters is shown.
C19_NothingBeforeFirstSubmit ==
    submitLog = <<>> =>
        /\ ~HasSubmitted(session_state)
        /\ runKind = "rerun"
        /\ runLog = <<>>
        /\ messages = <<InfoMsg("Please submit parameters in the sidebar before proceeding.")>>

C19_Witness ==
    /\ submitLog = <<>>
    /\ base_url # DEFAULT_PARAMETERS.base_url
    /\ runKind = "rerun"
    /\ messages = <<InfoMsg("Please submit parameters in the sidebar before proceeding.")>>

====
